---- MODULE Spec2Model ----
(***************************************************************************)
(* Model of the batch orchestrator of client/src/pages/home.tsx: the       *)
(* record list (uploadedImages), the combined markup (xmlOutput), the      *)
(* handlers handleFilesSelected, handleRemoveImage, handleRetry and the    *)
(* asynchronous processImages, whose invocations suspend at the            *)
(* extraction call (fetch) and resume on its response.                     *)
(* The export (handleDownload, convertXmlToCsv) has its own specification, *)
(* DownloadSpec, over the markup held in xmlOutput.                         *)
(*                                                                         *)
(* Strings are sequences of tokens: the markup fragment returned for a     *)
(* file is the one-token string <<file>>, and the line break is NL.       *)
(* progressValue and its interval are cosmetic state that no handler       *)
(* reads; they are left out.                                               *)
(***************************************************************************)
EXTENDS Integers, Sequences, FiniteSets, TLC

\* ---- bounds of the model ----
MaxFiles == 3       \* files handed to handleFilesSelected over a session
MaxAdd == 2         \* files in one handleFilesSelected call
MaxInvocations == 2 \* invocations of processImages over a session
MaxTime == 1        \* last value of the Date.now() clock
MaxFairFiles == 2   \* files over a session of FairSpec

Names == {"a"}
ServerMessages == {"", "bad scan"}

NL == 0

VARIABLES
  activeStep,       \* useState<1|2|3>(1)
  uploadedImages,   \* useState<UploadedImage[]>([])
  xmlOutput,        \* useState("")
  isProcessing,     \* useState(false)
  processingStage,  \* useState<ProcessingStage>("idle")
  runs,             \* the invocations of processImages that passed the early
                    \* return, in order: position (pc, i), the closure's
                    \* pendingImages and successCount, the stage timers still
                    \* set, the message caught, and Combined Output as it was
                    \* when the invocation began (xmlAtStart, history only)
  toasts,           \* the notifications shown, in order
  now,              \* Date.now()
  nfiles,           \* File objects handed over so far
  invoked,          \* processImages invocations so far
  revoked,          \* the previews passed to URL.revokeObjectURL; a record's
                    \* preview URL is named by its File object
  downloads         \* the files handed to downloadFile, in order

vars == <<activeStep, uploadedImages, xmlOutput, isProcessing, processingStage,
          runs, toasts, now, nfiles, invoked, revoked, downloads>>

\* ---- helpers ----
Range(s) == {s[k] : k \in 1..Len(s)}

RECURSIVE SelectSeqBy(_, _)
SelectSeqBy(s, S) ==
  IF s = <<>> THEN <<>>
  ELSE IF Head(s) \in S THEN <<Head(s)>> \o SelectSeqBy(Tail(s), S)
       ELSE SelectSeqBy(Tail(s), S)

\* `${Date.now()}-${index}-${file.name}`
MakeId(t, index, name) == <<t, index, name>>

NewImage(t, index, name, file) ==
  [id |-> MakeId(t, index, name), file |-> file,
   status |-> "pending", progress |-> 0, rawText |-> <<>>, error |-> ""]

\* the response of the extraction endpoint for a file
Xml(file) == <<file>>
Raw(file) == <<file>>

\* errorData.message || "Server processing failed"
FailureMessage(m) == IF m = "" THEN "Server processing failed" ELSE m

Eligible(img) == img.status = "pending" \/ img.status = "error"

\* uploadedImages.filter(img => img.status === "pending" || img.status === "error")
PendingImages(imgs) == SelectSeqBy(imgs, {img \in Range(imgs) : Eligible(img)})

\* prev.map(img => img.id === id ? {...img, status: "processing", progress: 30} : img)
MarkProcessing(imgs, id) ==
  [k \in 1..Len(imgs) |->
     IF imgs[k].id = id
     THEN [imgs[k] EXCEPT !.status = "processing", !.progress = 30]
     ELSE imgs[k]]

\* prev.map(img => img.id === id ? {...img, status: "complete", progress: 100, rawText} : img)
MarkComplete(imgs, id, rawText) ==
  [k \in 1..Len(imgs) |->
     IF imgs[k].id = id
     THEN [imgs[k] EXCEPT !.status = "complete", !.progress = 100, !.rawText = rawText]
     ELSE imgs[k]]

\* the record the catch block flags: pendingImages[0], whatever the index i
\* of the record whose call failed
FailedTarget(pendingImages, i) == pendingImages[1].id

\* prev.map(img => img.id === id ? {...img, status: "error", error: msg} : img)
MarkError(imgs, id, msg) ==
  [k \in 1..Len(imgs) |->
     IF imgs[k].id = id
     THEN [imgs[k] EXCEPT !.status = "error", !.error = msg]
     ELSE imgs[k]]

\* prev ? prev + "\n" + data.xml : data.xml
AppendXml(prev, xml) == IF prev # <<>> THEN prev \o <<NL>> \o xml ELSE xml

\* ResetErrors that also sends complete records back to pending
ResetAll(imgs) ==
  [k \in 1..Len(imgs) |->
     IF imgs[k].status \in {"error", "complete"}
     THEN [imgs[k] EXCEPT !.status = "pending", !.error = "", !.progress = 0]
     ELSE imgs[k]]

\* prev.map(img => img.status === "error" ? {...img, status: "pending", error: undefined, progress: 0} : img)
ResetErrors(imgs) ==
  [k \in 1..Len(imgs) |->
     IF imgs[k].status = "error"
     THEN [imgs[k] EXCEPT !.status = "pending", !.error = "", !.progress = 0]
     ELSE imgs[k]]

\* prev.filter(img => img.id !== id)
Remaining(imgs, id) == SelectSeqBy(imgs, {img \in Range(imgs) : img.id # id})

StageSchedule == <<"ocr", "reasoning", "validating">>

InFlight == {r \in 1..Len(runs) : runs[r].pc = "await"}

Init ==
  /\ activeStep = 1
  /\ uploadedImages = <<>>
  /\ xmlOutput = <<>>
  /\ isProcessing = FALSE
  /\ processingStage = "idle"
  /\ runs = <<>>
  /\ toasts = <<>>
  /\ now = 0
  /\ nfiles = 0
  /\ invoked = 0
  /\ revoked = {}
  /\ downloads = <<>>

\* the clock of Date.now() advances
Tick ==
  /\ now < MaxTime
  /\ now' = now + 1
  /\ UNCHANGED <<activeStep, uploadedImages, xmlOutput, isProcessing, processingStage,
                 runs, toasts, nfiles, invoked, revoked, downloads>>

\* handleFilesSelected putting the new records in front of the existing ones
handleFilesSelectedPrepend(files) ==
  /\ nfiles + Len(files) <= MaxFiles
  /\ LET newImages == [k \in 1..Len(files) |-> NewImage(now, k - 1, files[k], nfiles + k)]
     IN uploadedImages' = newImages \o uploadedImages
  /\ toasts' = Append(toasts, [title |-> "Documents Added", n |-> Len(files), run |-> 0, text |-> ""])
  /\ nfiles' = nfiles + Len(files)
  /\ UNCHANGED <<activeStep, xmlOutput, isProcessing, processingStage, runs, now, invoked,
                 revoked, downloads>>

handleFilesSelected(files) ==
  /\ nfiles + Len(files) <= MaxFiles
  /\ LET newImages == [k \in 1..Len(files) |-> NewImage(now, k - 1, files[k], nfiles + k)]
     IN uploadedImages' = uploadedImages \o newImages
  /\ toasts' = Append(toasts, [title |-> "Documents Added", n |-> Len(files), run |-> 0, text |-> ""])
  /\ nfiles' = nfiles + Len(files)
  /\ UNCHANGED <<activeStep, xmlOutput, isProcessing, processingStage, runs, now, invoked,
                 revoked, downloads>>

\* prev.find(img => img.id === id): the preview of the first record with the
\* id, if there is one
Found(imgs, id) ==
  LET hits == {k \in 1..Len(imgs) : imgs[k].id = id}
  IN IF hits = {} THEN {}
     ELSE {imgs[CHOOSE k \in hits : \A j \in hits : k <= j].file}

\* handleRemoveImage with the reset of xmlOutput and activeStep made whatever
\* remains
handleRemoveImageAlwaysReset(id) ==
  /\ uploadedImages' = Remaining(uploadedImages, id)
  /\ revoked' = revoked \cup Found(uploadedImages, id)
  /\ xmlOutput' = <<>> /\ activeStep' = 1
  /\ UNCHANGED <<isProcessing, processingStage, runs, toasts, now, nfiles, invoked,
                 downloads>>

\* handleRemoveImage without the reset of xmlOutput and activeStep
handleRemoveImageNoReset(id) ==
  /\ uploadedImages' = Remaining(uploadedImages, id)
  /\ revoked' = revoked \cup Found(uploadedImages, id)
  /\ UNCHANGED <<xmlOutput, activeStep>>
  /\ UNCHANGED <<isProcessing, processingStage, runs, toasts, now, nfiles, invoked,
                 downloads>>

handleRemoveImage(id) ==
  /\ revoked' = revoked \cup Found(uploadedImages, id)
  /\ LET remaining == Remaining(uploadedImages, id)
     IN /\ uploadedImages' = remaining
        /\ IF Len(remaining) = 0
           THEN xmlOutput' = <<>> /\ activeStep' = 1
           ELSE UNCHANGED <<xmlOutput, activeStep>>
  /\ UNCHANGED <<isProcessing, processingStage, runs, toasts, now, nfiles, invoked,
                 downloads>>

handleRetry ==
  /\ uploadedImages' = ResetErrors(uploadedImages)
  /\ activeStep' = 1
  /\ xmlOutput' = <<>>
  /\ UNCHANGED <<isProcessing, processingStage, runs, toasts, now, nfiles, invoked,
                 revoked, downloads>>

\* processImages without the early return: with nothing eligible it still
\* enters the processing view and leaves through its finally block
processImagesNoEarlyReturn ==
  /\ invoked < MaxInvocations
  /\ invoked' = invoked + 1
  /\ LET pendingImages == PendingImages(uploadedImages)
     IN IF Len(pendingImages) = 0
        THEN /\ activeStep' = 2
             /\ isProcessing' = FALSE
             /\ processingStage' = "complete"
             /\ UNCHANGED <<uploadedImages, xmlOutput, runs, toasts, now, nfiles, revoked, downloads>>
        ELSE /\ isProcessing' = TRUE
             /\ activeStep' = 2
             /\ processingStage' = "uploading"
             /\ runs' = Append(runs, [pc |-> "await", pendingImages |-> pendingImages,
                                      i |-> 1, successCount |-> 0,
                                      stageTimers |-> StageSchedule,
                                      errorMessage |-> "",
                                      xmlAtStart |-> xmlOutput])
             /\ uploadedImages' = MarkProcessing(uploadedImages, pendingImages[1].id)
             /\ UNCHANGED <<xmlOutput, toasts, now, nfiles, revoked, downloads>>

\* processImages up to its first await: the early return, or the set-up and
\* the first iteration's status update and fetch
processImages ==
  /\ invoked < MaxInvocations
  /\ invoked' = invoked + 1
  /\ LET pendingImages == PendingImages(uploadedImages)
     IN IF Len(pendingImages) = 0
        THEN UNCHANGED <<activeStep, uploadedImages, xmlOutput, isProcessing,
                         processingStage, runs, toasts, now, nfiles, revoked, downloads>>
        ELSE /\ isProcessing' = TRUE
             /\ activeStep' = 2
             /\ processingStage' = "uploading"
             /\ runs' = Append(runs, [pc |-> "await", pendingImages |-> pendingImages,
                                      i |-> 1, successCount |-> 0,
                                      stageTimers |-> StageSchedule,
                                      errorMessage |-> "",
                                      xmlAtStart |-> xmlOutput])
             /\ uploadedImages' = MarkProcessing(uploadedImages, pendingImages[1].id)
             /\ UNCHANGED <<xmlOutput, toasts, now, nfiles, revoked, downloads>>

\* setTimeout(() => setProcessingStage(stage), ...) of a run that has not
\* reached its finally block
StageTimer(r) ==
  /\ runs[r].pc = "await"
  /\ runs[r].stageTimers # <<>>
  /\ processingStage' = Head(runs[r].stageTimers)
  /\ runs' = [runs EXCEPT ![r].stageTimers = Tail(@)]
  /\ UNCHANGED <<activeStep, uploadedImages, xmlOutput, isProcessing, toasts,
                 now, nfiles, invoked, revoked, downloads>>

\* the finally block's `if (successCount > 0) setTimeout(...)`: the position
\* of a run that has left its loop
FinallyPc(successCount) == IF successCount > 0 THEN "timer" ELSE "done"

\* the failure toast raised twice
NotifyFailureTwice(ts, r, errorMessage) ==
  LET t == [title |-> "Processing Failed", n |-> 0, run |-> r, text |-> errorMessage]
  IN Append(Append(ts, t), t)

\* toast({title: "Processing Failed", description: errorMessage, ...}) of run r
NotifyFailure(ts, r, errorMessage) ==
  Append(ts, [title |-> "Processing Failed", n |-> 0, run |-> r, text |-> errorMessage])

\* toast({title: "Extraction Successful", description: `... ${successCount} ...`})
NotifySuccess(ts, r, successCount) ==
  Append(ts, [title |-> "Extraction Successful", n |-> successCount, run |-> r, text |-> ""])

\* the extraction call of run r returns a success response
FetchSuccess(r) ==
  /\ runs[r].pc = "await"
  /\ LET run == runs[r]
         image == run.pendingImages[run.i]
         completed == MarkComplete(uploadedImages, image.id, Raw(image.file))
     IN /\ xmlOutput' = AppendXml(xmlOutput, Xml(image.file))
        /\ IF run.i < Len(run.pendingImages)
           THEN /\ uploadedImages' = MarkProcessing(completed, run.pendingImages[run.i + 1].id)
                /\ runs' = [runs EXCEPT ![r].i = @ + 1, ![r].successCount = @ + 1]
                /\ UNCHANGED <<isProcessing, processingStage>>
           ELSE /\ uploadedImages' = completed
                /\ runs' = [runs EXCEPT ![r].successCount = @ + 1,
                                        ![r].stageTimers = <<>>,
                                        ![r].pc = FinallyPc(run.successCount + 1)]
                /\ isProcessing' = FALSE
                /\ processingStage' = "complete"
  /\ UNCHANGED <<activeStep, toasts, now, nfiles, invoked, revoked, downloads>>

\* FetchFailure without the finally block's setIsProcessing(false) and
\* setProcessingStage("complete")
FetchFailureNoFinally(r, m) ==
  /\ runs[r].pc = "await"
  /\ LET run == runs[r]
         errorMessage == FailureMessage(m)
     IN /\ uploadedImages' = MarkError(uploadedImages,
                                       FailedTarget(run.pendingImages, run.i), errorMessage)
        /\ toasts' = NotifyFailure(toasts, r, errorMessage)
        /\ runs' = [runs EXCEPT ![r].stageTimers = <<>>,
                                ![r].errorMessage = errorMessage,
                                ![r].pc = FinallyPc(run.successCount)]
  /\ UNCHANGED <<isProcessing, processingStage>>
  /\ UNCHANGED <<activeStep, xmlOutput, now, nfiles, invoked, revoked, downloads>>

\* the extraction call of run r fails with server message m
FetchFailure(r, m) ==
  /\ runs[r].pc = "await"
  /\ LET run == runs[r]
         errorMessage == FailureMessage(m)
     IN /\ uploadedImages' = MarkError(uploadedImages,
                                       FailedTarget(run.pendingImages, run.i), errorMessage)
        /\ toasts' = NotifyFailure(toasts, r, errorMessage)
        /\ runs' = [runs EXCEPT ![r].stageTimers = <<>>,
                                ![r].errorMessage = errorMessage,
                                ![r].pc = FinallyPc(run.successCount)]
  /\ isProcessing' = FALSE
  /\ processingStage' = "complete"
  /\ UNCHANGED <<activeStep, xmlOutput, now, nfiles, invoked, revoked, downloads>>

\* setTimeout(() => { setActiveStep(3); toast(...) }, 800)
ResultTimer(r) ==
  /\ runs[r].pc = "timer"
  /\ activeStep' = 3
  /\ toasts' = NotifySuccess(toasts, r, runs[r].successCount)
  /\ runs' = [runs EXCEPT ![r].pc = "done"]
  /\ UNCHANGED <<uploadedImages, xmlOutput, isProcessing, processingStage,
                 now, nfiles, invoked, revoked, downloads>>

\* the file lists handed to handleFilesSelected, as lists of file names
FileLists == UNION {[1..n -> Names] : n \in 1..MaxAdd}

\* the ids handed to handleRemoveImage: those in the Batch, and one that no
\* record carries (no index reaches MaxAdd)
KnownIds == {img.id : img \in Range(uploadedImages)} \cup {MakeId(0, MaxAdd, "a")}

Next ==
  \/ Tick
  \/ \E files \in FileLists : handleFilesSelected(files)
  \/ \E id \in KnownIds : handleRemoveImage(id)
  \/ handleRetry
  \/ processImages
  \/ \E r \in 1..Len(runs) : StageTimer(r)
  \/ \E r \in 1..Len(runs) : FetchSuccess(r)
  \/ \E r \in 1..Len(runs), m \in ServerMessages : FetchFailure(r, m)
  \/ \E r \in 1..Len(runs) : ResultTimer(r)

Spec == Init /\ [][Next]_vars

\* the extraction call of run r returns: the server answers every request
Respond(r) ==
  /\ r <= Len(runs)
  /\ (FetchSuccess(r) \/ \E m \in ServerMessages : FetchFailure(r, m))

\* the 800 ms timer of run r fires: the browser runs every timer that is set
TimerFires(r) == r <= Len(runs) /\ ResultTimer(r)

\* Spec over sessions of at most MaxFairFiles files, with every extraction
\* call eventually returning and every result timer eventually firing
FairNext ==
  \/ Tick
  \/ \E files \in FileLists : handleFilesSelected(files) /\ nfiles' <= MaxFairFiles
  \/ \E id \in KnownIds : handleRemoveImage(id)
  \/ handleRetry
  \/ processImages
  \/ \E r \in 1..Len(runs) : StageTimer(r)
  \/ \E r \in 1..Len(runs) : Respond(r)
  \/ \E r \in 1..Len(runs) : TimerFires(r)

FairSpec ==
  /\ Init /\ [][FairNext]_vars
  /\ \A r \in 1..MaxInvocations : WF_vars(Respond(r)) /\ WF_vars(TimerFires(r))

\* ---- the export: handleDownload and convertXmlToCsv ----
\* Here a string is a sequence of characters, and the markup handed to
\* DOMParser is the sequence of the fragments it holds (the line breaks
\* between fragments are white space under <Root> and select nothing). A
\* fragment is the text of the elements the 15 selectors pick, in the order
\* of the columns; a fragment that is not well-formed carries what the
\* parser read of it before the error.
MaxDocs == 2        \* fragments in the markup handed to convertXmlToCsv
MaxText == 2        \* characters of an element's text
MaxDownloads == 1   \* handleDownload calls that save or refuse over a session

Quote == "\""
Comma == ","
LineFeed == "\n"
Space == " "

\* the characters of an element's text; "MISSING" stands for the word
Chars == {"x", Quote, Comma, LineFeed, Space, "MISSING"}
\* a text with a line break inside
TwoLineText == <<"x", LineFeed, "x">>
Texts == UNION {[1..n -> Chars] : n \in 0..MaxText} \cup {TwoLineText}
NotesTexts == {<<>>, <<"Order ID:", Space, "x">>}

headers ==
  <<"Order ID", "Patient Name", "DOB", "Gender", "Doctor Name", "License", "Clinic",
    "Medicine", "Dosage", "Frequency", "Duration", "Height", "Weight", "Blood Type", "BP">>

Columns == 1..Len(headers)

\* the <MedicalDocument> elements: Notes, one element with any text, and "x"
\* in the others
Documents ==
  {[k \in Columns |-> IF k = 1 THEN n ELSE IF k = j THEN t ELSE <<"x">>] :
     n \in NotesTexts, t \in Texts, j \in {2, Len(headers)}}

PlainDocument == [k \in Columns |-> <<"x">>]

Fragments ==
  [wellFormed : {TRUE}, el : Documents] \cup [wellFormed : {FALSE}, el : {PlainDocument}]

\* the values of xmlOutput handed to handleDownload
XmlStrings == UNION {[1..n -> Fragments] : n \in 0..MaxDocs}

\* parser.parseFromString(`<Root>${xmlString}</Root>`, "text/xml"), then
\* getElementsByTagName("MedicalDocument"). The call does not throw on markup
\* that is not well-formed: it returns a document that holds a <parsererror>
\* element, and with it, depending on the browser, nothing else, or what was
\* read before the error (with or without the fragment the error is in).
ParseFromString(xmlString) ==
  LET bad == {k \in 1..Len(xmlString) : ~xmlString[k].wellFormed}
      els(n) == [k \in 1..n |-> xmlString[k].el]
  IN IF bad = {}
     THEN {[threw |-> FALSE, docs |-> els(Len(xmlString))]}
     ELSE LET first == CHOOSE k \in bad : \A j \in bad : k <= j
          IN {[threw |-> FALSE, docs |-> <<>>],
              [threw |-> FALSE, docs |-> els(first - 1)],
              [threw |-> FALSE, docs |-> els(first)]}

\* .replace(/MISSING|UNREADABLE/g, "")
RemoveWords(text) == SelectSeq(text, LAMBDA c : c \notin {"MISSING", "UNREADABLE"})

WhiteSpace == {Space, LineFeed}

\* .trim()
RECURSIVE Trim(_)
Trim(text) ==
  IF text = <<>> THEN text
  ELSE IF Head(text) \in WhiteSpace THEN Trim(Tail(text))
  ELSE IF text[Len(text)] \in WhiteSpace THEN Trim(SubSeq(text, 1, Len(text) - 1))
  ELSE text

\* .replace("Order ID:", ""): the first occurrence only
RECURSIVE RemoveFirst(_, _)
RemoveFirst(text, word) ==
  IF text = <<>> THEN text
  ELSE IF Head(text) = word THEN Tail(text)
  ELSE <<Head(text)>> \o RemoveFirst(Tail(text), word)

\* el?.textContent?.replace(/MISSING|UNREADABLE/g, "")?.trim() || ""
getText(doc, k) == Trim(RemoveWords(doc[k]))

\* the 15 values of a row, before quoting
Cell(doc, k) ==
  IF k = 1 THEN Trim(RemoveFirst(getText(doc, 1), "Order ID:")) ELSE getText(doc, k)

\* field.replace(/"/g, '""')
RECURSIVE EscapeQuotes(_)
EscapeQuotes(field) ==
  IF field = <<>> THEN field
  ELSE (IF Head(field) = Quote THEN <<Quote, Quote>> ELSE <<Head(field)>>)
       \o EscapeQuotes(Tail(field))

\* CsvField without the doubling of the quotes inside the field
CsvFieldUnescaped(field) == <<Quote>> \o field \o <<Quote>>

\* `"${field.replace(/"/g, '""')}"`
CsvField(field) == <<Quote>> \o EscapeQuotes(field) \o <<Quote>>

\* Array.prototype.join
RECURSIVE Join(_, _)
Join(strings, sep) ==
  IF strings = <<>> THEN <<>>
  ELSE IF Len(strings) = 1 THEN strings[1]
  ELSE strings[1] \o sep \o Join(Tail(strings), sep)

Row(doc) == Join([k \in Columns |-> CsvField(Cell(doc, k))], <<Comma>>)

HeaderLine == Join([k \in Columns |-> <<headers[k]>>], <<Comma>>)

\* convertXmlToCsv from the parsed document on: the catch block returns ""
\* when something in the try block threw
convertXmlToCsv(xmlDoc) ==
  IF xmlDoc.threw THEN <<>>
  ELSE Join(<<HeaderLine>> \o [i \in 1..Len(xmlDoc.docs) |-> Row(xmlDoc.docs[i])],
            <<LineFeed>>)

DownloadToast(description) ==
  [title |-> "Download Started", n |-> 0, run |-> 0, text |-> description]

ErrorToast == [title |-> "Error", n |-> 0, run |-> 0, text |-> "Failed to convert to CSV."]

handleDownload(format) ==
  /\ Len(downloads) < MaxDownloads
  /\ IF xmlOutput = <<>>
     THEN UNCHANGED <<downloads, toasts>>
     ELSE IF format = "xml"
     THEN /\ downloads' = Append(downloads, [content |-> xmlOutput,
                                             name |-> "RxSync_Medical_Data.xml"])
          /\ toasts' = Append(toasts, DownloadToast("XML file saved to your device."))
     ELSE \E xmlDoc \in ParseFromString(xmlOutput) :
            LET csvContent == convertXmlToCsv(xmlDoc)
            IN IF csvContent = <<>>
               THEN /\ toasts' = Append(toasts, ErrorToast)
                    /\ UNCHANGED downloads
               ELSE /\ downloads' = Append(downloads, [content |-> csvContent,
                                                       name |-> "RxSync_Medical_Data.csv"])
                    /\ toasts' = Append(toasts, DownloadToast("CSV file saved to your device."))
  /\ UNCHANGED <<activeStep, uploadedImages, xmlOutput, isProcessing, processingStage,
                 runs, now, nfiles, invoked, revoked>>

\* the results view over the markup the extraction calls returned:
\* handleDownload reads xmlOutput only
DownloadInit ==
  /\ activeStep = 3
  /\ uploadedImages = <<>>
  /\ xmlOutput \in XmlStrings
  /\ isProcessing = FALSE
  /\ processingStage = "complete"
  /\ runs = <<>>
  /\ toasts = <<>>
  /\ now = 0
  /\ nfiles = 0
  /\ invoked = 0
  /\ revoked = {}
  /\ downloads = <<>>

DownloadNext == \E format \in {"xml", "csv"} : handleDownload(format)

DownloadSpec == DownloadInit /\ [][DownloadNext]_vars

\* ---- vocabulary of the claims ----

\* a record is told apart by its File object: ids may coincide
Files(imgs) == {imgs[k].file : k \in 1..Len(imgs)}
Rec(imgs, f) == imgs[CHOOSE k \in 1..Len(imgs) : imgs[k].file = f]
Kept == Files(uploadedImages) \cap Files(uploadedImages')
IdsDistinct(imgs) ==
  \A j, k \in 1..Len(imgs) : imgs[j].id = imgs[k].id => j = k

Count(s, x) == Cardinality({k \in 1..Len(s) : s[k] = x})

\* this step is the first one of invocation r: it passed the early return
Started(r) == r = Len(runs) + 1 /\ Len(runs') = r
\* this step is the catch block of invocation r
FailsNow(r) ==
  /\ r <= Len(runs) /\ Len(runs') = Len(runs)
  /\ runs[r].pc = "await" /\ runs'[r].pc # "await" /\ runs'[r].errorMessage # ""
\* this step moves record f to complete
BecomesComplete(f) ==
  /\ f \in Kept
  /\ Rec(uploadedImages, f).status # "complete"
  /\ Rec(uploadedImages', f).status = "complete"
\* this step flags record f
BecomesError(f) ==
  /\ f \in Kept
  /\ Rec(uploadedImages, f).status # "error"
  /\ Rec(uploadedImages', f).status = "error"

\* the line-break-separated outputs of the complete records, in Batch order
RECURSIVE JoinComplete(_)
JoinComplete(imgs) ==
  IF imgs = <<>> THEN <<>>
  ELSE LET front == JoinComplete(SubSeq(imgs, 1, Len(imgs) - 1))
           last == imgs[Len(imgs)]
       IN IF last.status = "complete" THEN AppendXml(front, Xml(last.file)) ELSE front

\* C1: a run over a Batch of three pending records (distinct ids, nothing else
\* in flight, Combined Output empty at its start) whose calls succeed for
\* records 1 and 2 and fail for record 3 ends with 1 and 2 complete, their
\* outputs in Combined Output in that order, record 3 in error, and a success
\* count of 2.
C1_TwoSucceedThirdFails ==
  [][\A r \in 1..Len(runs) :
       LET p == runs[r].pendingImages
       IN (/\ FailsNow(r)
           /\ Len(p) = 3 /\ runs[r].i = 3
           /\ \A k \in 1..3 : p[k].status = "pending"
           /\ IdsDistinct(p)
           /\ Len(uploadedImages) = 3
           /\ \A k \in 1..3 : uploadedImages[k].file = p[k].file
           /\ InFlight = {r}
           /\ runs[r].xmlAtStart = <<>>
           /\ xmlOutput = AppendXml(Xml(p[1].file), Xml(p[2].file)))
          => /\ uploadedImages'[1].status = "complete"
             /\ uploadedImages'[2].status = "complete"
             /\ uploadedImages'[3].status = "error"
             /\ xmlOutput' = AppendXml(Xml(p[1].file), Xml(p[2].file))
             /\ runs'[r].successCount = 2]_vars

\* C2: an invocation of processImages made while an earlier one is in flight
\* changes no record, issues no extraction call and takes no step of its own.
C2_SecondInvocationIgnored ==
  [][(InFlight # {} /\ invoked' = invoked + 1)
       => (uploadedImages' = uploadedImages /\ runs' = runs)]_vars

\* C3: at most one extraction call is in flight in every reachable state.
C3_OneCallInFlight == Cardinality(InFlight) <= 1

\* C4: every status change of a record is pending -> processing,
\* processing -> complete, processing -> error, or error -> pending by
\* handleRetry; a complete record never changes status.
C4_RecordStateMachine ==
  [][\A f \in Kept :
       LET a == Rec(uploadedImages, f).status
           b == Rec(uploadedImages', f).status
       IN (a # b /\ IdsDistinct(uploadedImages) /\ Cardinality(InFlight) <= 1)
          => (\/ (a = "pending" /\ b = "processing")
              \/ (a = "processing" /\ b \in {"complete", "error"})
              \/ (a = "error" /\ b = "pending" /\ handleRetry))]_vars

\* C5: Combined Output holds each record's output at most once, and a step
\* appends a record's output exactly when it moves that record to complete.
C5_AppendedOnceOnComplete ==
  /\ [](\A f \in 1..nfiles :
         (IdsDistinct(uploadedImages) /\ Cardinality(InFlight) <= 1)
         => Count(xmlOutput, f) <= 1)
  /\ [][\A f \in 1..nfiles :
          (IdsDistinct(uploadedImages) /\ Cardinality(InFlight) <= 1)
          => ((xmlOutput' = AppendXml(xmlOutput, Xml(f))) <=> BecomesComplete(f))]_vars

\* C6: whenever no run is in flight, Combined Output is the line-break-separated
\* concatenation of the outputs of the complete records, in Batch order.
C6_OutputIsCompleteRecords ==
  (InFlight = {} /\ IdsDistinct(uploadedImages))
  => xmlOutput = JoinComplete(uploadedImages)

BatchEmptied == uploadedImages # <<>> /\ uploadedImages' = <<>>

\* C7 (as claimed): Combined Output is empty right after the Batch becomes
\* empty and right after an invocation of processImages begins processing
\* (ids distinct, no other run in flight).
C7_ClearedOnEmptyAndOnRunStart ==
  [][/\ BatchEmptied => xmlOutput' = <<>>
     /\ (\E r \in 1..Len(runs') :
           Started(r) /\ InFlight = {} /\ IdsDistinct(uploadedImages))
        => xmlOutput' = <<>>]_vars

\* C7 (amended): Combined Output is empty right after the Batch becomes empty
\* and right after handleRetry; an invocation of processImages that begins
\* processing leaves Combined Output as it found it.
C7_ClearedOnEmptyAndOnRetry ==
  [][/\ BatchEmptied => xmlOutput' = <<>>
     /\ handleRetry => xmlOutput' = <<>>
     /\ (\E r \in 1..Len(runs') : Started(r)) => xmlOutput' = xmlOutput]_vars

\* a run began with output of an earlier run in Combined Output, and a
\* removal has emptied the Batch since
C7_Witness ==
  /\ \E r \in 1..Len(runs) : runs[r].xmlAtStart # <<>>
  /\ uploadedImages = <<>>
  /\ xmlOutput = <<>>

FailureToasts(r) ==
  {k \in 1..Len(toasts) : toasts[k].run = r /\ toasts[k].title = "Processing Failed"}
SuccessToasts(r) ==
  {k \in 1..Len(toasts) : toasts[k].run = r /\ toasts[k].title = "Extraction Successful"}

\* C8: a run whose extraction call fails on its first eligible record moves no
\* record to complete and leaves Combined Output alone in each of its steps
\* (its start and its catch block), and produces exactly one failure
\* notification and no success notification.
C8_FirstRecordFails ==
  /\ [][\A r \in 1..Len(runs') :
          /\ Started(r)
             => /\ xmlOutput' = xmlOutput
                /\ \A f \in Kept : ~BecomesComplete(f)
          /\ (FailsNow(r) /\ runs[r].i = 1)
             => /\ xmlOutput' = xmlOutput
                /\ \A f \in Kept : ~BecomesComplete(f)
                /\ Len(toasts') = Len(toasts) + 1
                /\ toasts'[Len(toasts')].title = "Processing Failed"
                /\ toasts'[Len(toasts')].text = runs'[r].errorMessage
                /\ runs'[r].pc = "done"]_vars
  /\ [](\A r \in 1..Len(runs) :
          (runs[r].pc # "await" /\ runs[r].errorMessage # "" /\ runs[r].i = 1)
          => /\ runs[r].successCount = 0
             /\ Cardinality(FailureToasts(r)) = 1
             /\ SuccessToasts(r) = {})

\* a run has failed on its first eligible record while Combined Output held
\* the output of an earlier run, and Combined Output is as it was
C8_Witness ==
  \E r \in 1..Len(runs) :
    /\ runs[r].pc = "done" /\ runs[r].errorMessage # "" /\ runs[r].i = 1
    /\ runs[r].xmlAtStart # <<>>
    /\ xmlOutput = runs[r].xmlAtStart
    /\ Cardinality(FailureToasts(r)) = 1

\* C9: when a call of run r fails, the first record of r's eligible set is
\* flagged error with the failure's message, r issues no further call, and
\* the eligible records after the failing one are left as they were.
C9_FailureFlagsFirstAndStops ==
  [][\A r \in 1..Len(runs') :
       /\ FailsNow(r)
          => /\ \A f \in Kept :
                  f = runs[r].pendingImages[1].file
                  => /\ Rec(uploadedImages', f).status = "error"
                     /\ Rec(uploadedImages', f).error = runs'[r].errorMessage
             /\ runs'[r].i = runs[r].i
             /\ \A j \in (runs[r].i + 1)..Len(runs[r].pendingImages) :
                  \A f \in Kept :
                    f = runs[r].pendingImages[j].file
                    => Rec(uploadedImages', f) = Rec(uploadedImages, f)
       /\ (r <= Len(runs) /\ runs[r].pc # "await")
          => (runs'[r].pc # "await" /\ runs'[r].i = runs[r].i)]_vars

\* C10: the catch block of a run (ids distinct, none of its records removed,
\* no other run in flight) flags exactly one record and leaves no record
\* processing: every record that is not complete is pending or error.
C10_RecoverableAfterFailure ==
  [][\A r \in 1..Len(runs) :
       (/\ FailsNow(r) /\ IdsDistinct(uploadedImages) /\ InFlight = {r}
        /\ Files(runs[r].pendingImages) \subseteq Files(uploadedImages))
       => /\ Cardinality({f \in Kept : BecomesError(f)}) = 1
          /\ \A k \in 1..Len(uploadedImages') :
               uploadedImages'[k].status \in {"complete", "pending", "error"}]_vars

\* C11: no two records of the Batch share an id in any reachable state, and a
\* record that stays in the Batch keeps its id.
C11_IdsUniqueAndImmutable ==
  /\ []IdsDistinct(uploadedImages)
  /\ [][\A f \in Kept : Rec(uploadedImages', f).id = Rec(uploadedImages, f).id]_vars

\* this step is a handleFilesSelected call with n files
AddsFiles(n) == nfiles' = nfiles + n /\ n > 0

\* C12: handleFilesSelected with n files grows the Batch by exactly n records,
\* appended at the end in the order the files were supplied, each pending with
\* progress 0 and empty rawText and error, and leaves every existing record
\* as it was, at its place.
C12_AddAppendsPending ==
  [][\A n \in 1..MaxFiles :
       AddsFiles(n)
       => /\ Len(uploadedImages') = Len(uploadedImages) + n
          /\ SubSeq(uploadedImages', 1, Len(uploadedImages)) = uploadedImages
          /\ \A k \in 1..n :
               LET img == uploadedImages'[Len(uploadedImages) + k]
               IN /\ img.file = nfiles + k
                  /\ img.status = "pending"
                  /\ img.progress = 0
                  /\ img.rawText = <<>>
                  /\ img.error = ""]_vars

\* two files were added to a Batch whose only record was complete: the complete
\* record is still first, with its text, and the two new records follow it in
\* the order supplied
C12_Witness ==
  /\ Len(uploadedImages) = 3
  /\ uploadedImages[1].status = "complete" /\ uploadedImages[1].rawText # <<>>
  /\ uploadedImages[2].file = 2 /\ uploadedImages[3].file = 3
  /\ uploadedImages[2].id[2] = 0 /\ uploadedImages[3].id[2] = 1
  /\ uploadedImages[2].status = "pending" /\ uploadedImages[3].status = "pending"
  /\ toasts[Len(toasts)].title = "Documents Added" /\ toasts[Len(toasts)].n = 2

\* this step ends invocation r: it leaves the loop and runs the finally block
EndsNow(r) ==
  r <= Len(runs) /\ Len(runs') >= r /\ runs[r].pc = "await" /\ runs'[r].pc # "await"

\* C13: every invocation of processImages that found an eligible record
\* eventually ends, given that every extraction call returns; the step that
\* ends it, on the success path or the failure path, clears isProcessing and
\* sets processingStage to complete.
C13_RunEndsAndClearsFlag ==
  /\ \A r \in 1..MaxInvocations :
       (r <= Len(runs) /\ runs[r].pc = "await") ~> (r <= Len(runs) /\ runs[r].pc # "await")
  /\ [][\A r \in 1..Len(runs) :
          EndsNow(r) => (isProcessing' = FALSE /\ processingStage' = "complete")]_vars

\* one invocation has ended in its catch block and another after its last
\* record succeeded; isProcessing is cleared and processingStage is complete
C13_Witness ==
  /\ \E r, q \in 1..Len(runs) :
       /\ runs[r].pc # "await" /\ runs[r].errorMessage # ""
       /\ runs[q].pc # "await" /\ runs[q].errorMessage = ""
       /\ runs[q].i = Len(runs[q].pendingImages)
  /\ isProcessing = FALSE
  /\ processingStage = "complete"

\* C14: a run's count of successes grows by one exactly with a step that moves
\* one record to complete (ids distinct, nothing else in flight); a run that
\* ended with a success eventually has its timer fire, which sets activeStep
\* to 3 and shows the success notification with that count; a run that ended
\* without a success sets no timer and shows no success notification.
C14_ResultsViewAndCount ==
  /\ [][\A r \in 1..Len(runs) :
          /\ (runs'[r].successCount # runs[r].successCount
              /\ IdsDistinct(uploadedImages) /\ InFlight = {r})
             => /\ runs'[r].successCount = runs[r].successCount + 1
                /\ Cardinality({f \in Kept : BecomesComplete(f)}) = 1
          /\ (runs[r].pc = "timer" /\ runs'[r].pc = "done")
             => /\ activeStep' = 3
                /\ toasts' = NotifySuccess(toasts, r, runs[r].successCount)]_vars
  /\ [](\A r \in 1..Len(runs) :
          (runs[r].pc # "await" /\ runs[r].successCount = 0)
          => (runs[r].pc = "done" /\ SuccessToasts(r) = {}))
  /\ \A r \in 1..MaxInvocations :
       (r <= Len(runs) /\ runs[r].pc = "timer") ~> (r <= Len(runs) /\ runs[r].pc = "done")

\* C15: handleRetry resets every record in error to pending with progress 0
\* and no error text, leaves every other record as it was, keeps the order and
\* the number of records, empties xmlOutput and sets activeStep to 1.
C15_RetryResetsErrorsOnly ==
  [][handleRetry
     => /\ Len(uploadedImages') = Len(uploadedImages)
        /\ \A k \in 1..Len(uploadedImages) :
             LET a == uploadedImages[k]
                 b == uploadedImages'[k]
             IN IF a.status = "error"
                THEN b = [a EXCEPT !.status = "pending", !.progress = 0, !.error = ""]
                ELSE b = a
        /\ xmlOutput' = <<>>
        /\ activeStep' = 1]_vars

\* after a retry: the record flagged by a failed run is pending again without
\* its error text, a complete record still holds its text, xmlOutput is empty
\* and activeStep is 1
C15_Witness ==
  /\ xmlOutput = <<>> /\ activeStep = 1
  /\ \E r \in 1..Len(runs) :
       /\ runs[r].pc = "done" /\ runs[r].errorMessage # ""
       /\ \E k \in 1..Len(uploadedImages) :
            /\ uploadedImages[k].file = runs[r].pendingImages[1].file
            /\ uploadedImages[k].status = "pending"
            /\ uploadedImages[k].error = ""
  /\ \E k \in 1..Len(uploadedImages) :
       uploadedImages[k].status = "complete" /\ uploadedImages[k].rawText # <<>>

\* this step takes at least one record out of the Batch
RemovesRecord == Len(uploadedImages') < Len(uploadedImages)

\* C16: a removal that leaves the Batch empty empties xmlOutput and sets
\* activeStep to 1; a removal that leaves a record in the Batch changes
\* neither xmlOutput nor activeStep.
C16_ResetOnlyWhenEmptied ==
  [][RemovesRecord
     => IF uploadedImages' = <<>>
        THEN xmlOutput' = <<>> /\ activeStep' = 1
        ELSE xmlOutput' = xmlOutput /\ activeStep' = activeStep]_vars

\* record f has been removed while an older record g stayed: xmlOutput still
\* holds the outputs of both and the results view is still shown
C16_Witness ==
  \E f \in revoked, k \in 1..Len(uploadedImages) :
    LET g == uploadedImages[k].file
    IN /\ g < f
       /\ f \notin Files(uploadedImages)
       /\ uploadedImages[k].status = "complete"
       /\ xmlOutput = AppendXml(Xml(g), Xml(f))
       /\ activeStep = 3

BatchIds == {uploadedImages[k].id : k \in 1..Len(uploadedImages)}

\* C17: handleRemoveImage with an id that no record of the Batch carries (an
\* id removed before, or one never given out) leaves uploadedImages,
\* xmlOutput and activeStep as they were and revokes no preview; stated for
\* the calls made while no extraction call is in flight and xmlOutput is empty.
C17_RemoveAbsentIsNoOp ==
  [][\A id \in KnownIds :
       (handleRemoveImage(id) /\ id \notin BatchIds /\ InFlight = {} /\ xmlOutput = <<>>)
       => UNCHANGED <<uploadedImages, xmlOutput, activeStep, revoked>>]_vars

\* this step is the response to the call of run r for a record that is not
\* in the Batch any more, and whose id no record of the Batch carries
LateResponse(r) ==
  /\ r <= Len(runs) /\ Len(runs') = Len(runs)
  /\ runs[r].pc = "await"
  /\ (runs'[r].i # runs[r].i \/ runs'[r].pc # "await")
  /\ runs[r].pendingImages[runs[r].i].file \notin Files(uploadedImages)
  /\ runs[r].pendingImages[runs[r].i].id \notin BatchIds

\* C18: the response (success or failure) to the call for a record removed
\* while the call was in flight leaves the Batch without that record and
\* without a record of its id, and alters no record of the Batch other than
\* the next eligible record of the run, whose processing begins (nothing else
\* in flight, ids distinct).
C18_LateResponseIsNoOp ==
  [][\A r \in 1..Len(runs) :
       (LateResponse(r) /\ InFlight = {r} /\ IdsDistinct(uploadedImages))
       => LET p == runs[r].pendingImages
              i == runs[r].i
          IN /\ p[i].file \notin Files(uploadedImages')
             /\ p[i].id \notin {uploadedImages'[k].id : k \in 1..Len(uploadedImages')}
             /\ Len(uploadedImages') = Len(uploadedImages)
             /\ \A f \in Kept :
                  (i < Len(p) => f # p[i + 1].file)
                  => Rec(uploadedImages', f) = Rec(uploadedImages, f)]_vars

\* C19: an invocation of processImages that finds no record pending or in
\* error changes no record, neither xmlOutput, isProcessing, processingStage
\* nor activeStep, issues no extraction call and shows no notification.
C19_NothingEligibleIsNoOp ==
  [][(invoked' = invoked + 1 /\ PendingImages(uploadedImages) = <<>>)
     => UNCHANGED <<uploadedImages, xmlOutput, isProcessing, processingStage,
                    activeStep, runs, toasts>>]_vars

\* processImages has been invoked twice and began processing once: the other
\* invocation found nothing eligible; the Batch's records are complete and the
\* results view with the run's output is shown
C19_Witness ==
  /\ invoked = 2 /\ Len(runs) = 1
  /\ runs[1].pc = "done"
  /\ uploadedImages # <<>>
  /\ \A k \in 1..Len(uploadedImages) : uploadedImages[k].status = "complete"
  /\ xmlOutput # <<>>
  /\ activeStep = 3
  /\ processingStage = "complete"

\* C20: in every reachable state a record has an error text only if its
\* status is error.
C20_ErrorTextOnlyInError ==
  \A k \in 1..Len(uploadedImages) :
    uploadedImages[k].error # "" => uploadedImages[k].status = "error"

\* C21: in every reachable state a record that is not complete has no
\* rawText (ids distinct).
C21_RawTextOnlyWhenComplete ==
  IdsDistinct(uploadedImages)
  => \A k \in 1..Len(uploadedImages) :
       uploadedImages[k].rawText # <<>> => uploadedImages[k].status = "complete"

\* the place of a stage on the schedule
StageRank(stage) ==
  CASE stage = "idle" -> 0
    [] stage = "uploading" -> 1
    [] stage = "ocr" -> 2
    [] stage = "reasoning" -> 3
    [] stage = "validating" -> 4
    [] stage = "complete" -> 5

\* C22: a step that changes processingStage and is not the start of a run
\* moves it forward on uploading -> ocr -> reasoning -> validating ->
\* complete; in particular no timer moves it back from complete.
C22_StageOnlyForward ==
  [][(processingStage' # processingStage /\ Len(runs') = Len(runs))
     => StageRank(processingStage') > StageRank(processingStage)]_vars

\* C25: the success response to the call for a record removed while the call
\* was in flight leaves xmlOutput as it was and is not counted by the run.
C25_LateSuccessAddsNothing ==
  [][\A r \in 1..Len(runs) :
       (LateResponse(r) /\ runs'[r].errorMessage = "")
       => /\ xmlOutput' = xmlOutput
          /\ runs'[r].successCount = runs[r].successCount]_vars

\* ---- vocabulary of the claims about the export ----
WellFormed(xmlString) == \A k \in 1..Len(xmlString) : xmlString[k].wellFormed

\* this step is handleDownload("csv") on markup that is not empty
ExportsCsv == xmlOutput # <<>> /\ handleDownload("csv")

\* the pieces of string s between the positions in cuts
Pieces(s, cuts) ==
  LET n == Cardinality(cuts)
      cut(j) == IF j = 0 THEN 0
                ELSE IF j = n + 1 THEN Len(s) + 1
                ELSE CHOOSE i \in cuts : Cardinality({x \in cuts : x <= i}) = j
  IN [j \in 1..(n + 1) |-> SubSeq(s, cut(j - 1) + 1, cut(j) - 1)]

\* the pieces of a string between the occurrences of sep
SplitAt(s, sep) == Pieces(s, {i \in 1..Len(s) : s[i] = sep})

DoubleQuoted(f) == Len(f) >= 2 /\ f[1] = Quote /\ f[Len(f)] = Quote

\* a reader of comma-separated values. A separator is one that an even
\* number of quotes precedes: inside a quoted field, commas and line breaks
\* belong to the field and a doubled quote is a quote.
QuotesBefore(s, i) == Cardinality({q \in 1..(i - 1) : s[q] = Quote})
Separators(s, sep) == {i \in 1..Len(s) : s[i] = sep /\ QuotesBefore(s, i) % 2 = 0}

\* the text of a quoted field: of each pair of quotes the first is kept
Unescape(inner) ==
  LET keep == {i \in 1..Len(inner) :
                 inner[i] # Quote \/ QuotesBefore(inner, i + 1) % 2 = 1}
  IN [j \in 1..Cardinality(keep) |->
        inner[CHOOSE i \in keep : Cardinality({x \in keep : x <= i}) = j]]

ReadField(raw) ==
  IF DoubleQuoted(raw)
  THEN [text |-> Unescape(SubSeq(raw, 2, Len(raw) - 1)), quoted |-> TRUE]
  ELSE [text |-> raw, quoted |-> FALSE]

\* the records of a table, each the sequence of its fields, a field being
\* its text and whether it was quoted
ReadCsv(s) ==
  LET lines == Pieces(s, Separators(s, LineFeed))
  IN [i \in 1..Len(lines) |->
        LET raw == Pieces(lines[i], Separators(lines[i], Comma))
        IN [j \in 1..Len(raw) |-> ReadField(raw[j])]]

\* C23: handleDownload("csv") on markup that is not well-formed saves no file
\* and shows the conversion failure: convertXmlToCsv returned "".
C23_MalformedReportsFailure ==
  [][(ExportsCsv /\ ~WellFormed(xmlOutput))
     => /\ downloads' = downloads
        /\ toasts' = Append(toasts, ErrorToast)]_vars

\* C24 (as claimed): the table saved for well-formed markup of k fragments has
\* exactly k+1 lines, and every line, the header included, is 15
\* comma-separated double-quoted fields.
C24_LinesOfQuotedFields ==
  [][(ExportsCsv /\ WellFormed(xmlOutput))
     => LET lines == SplitAt(downloads'[Len(downloads')].content, LineFeed)
        IN /\ Len(lines) = Len(xmlOutput) + 1
           /\ \A i \in 1..Len(lines) :
                LET fields == SplitAt(lines[i], Comma)
                IN /\ Len(fields) = Len(headers)
                   /\ \A j \in 1..Len(fields) : DoubleQuoted(fields[j])]_vars

\* C24 (amended): the table saved for well-formed markup of k fragments reads
\* as k+1 records of 15 fields: the header, its 15 column names unquoted,
\* then one row per fragment in input order, each field double-quoted and
\* holding the element's text; the table has exactly k+1 lines when no
\* field holds a line break.
C24_HeaderAndQuotedRows ==
  [][(ExportsCsv /\ WellFormed(xmlOutput))
     => LET k == Len(xmlOutput)
            saved == downloads'[Len(downloads')]
            recs == ReadCsv(saved.content)
        IN /\ Len(downloads') = Len(downloads) + 1
           /\ saved.name = "RxSync_Medical_Data.csv"
           /\ Len(recs) = k + 1
           /\ recs[1] = [j \in Columns |-> [text |-> <<headers[j]>>, quoted |-> FALSE]]
           /\ \A i \in 1..k :
                recs[i + 1] = [j \in Columns |->
                                 [text |-> Cell(xmlOutput[i].el, j), quoted |-> TRUE]]
           /\ (\A i \in 1..k, j \in Columns : LineFeed \notin Range(Cell(xmlOutput[i].el, j)))
              => Len(SplitAt(saved.content, LineFeed)) = k + 1]_vars

\* a table has been saved for two fragments, the first with a quote in a
\* field and the second with a line break inside a field: it has more than
\* three lines
C24_Witness ==
  /\ Len(downloads) = 1
  /\ downloads[1].name = "RxSync_Medical_Data.csv"
  /\ Len(xmlOutput) = 2 /\ WellFormed(xmlOutput)
  /\ xmlOutput[1].el[2] = <<"x", Quote>>
  /\ xmlOutput[2].el[Len(headers)] = TwoLineText
  /\ Len(SplitAt(downloads[1].content, LineFeed)) > 3
====
